---- MODULE Spec2Model ----
(***************************************************************************)
(* Model of the websocket audio receiver of src/app.py.                    *)
(*                                                                         *)
(* Every connection runs get_audio (src/app.py:90-124) as one asyncio      *)
(* task.  The only suspension points of that coroutine are                 *)
(* websocket.accept() (line 93) and websocket.receive() (line 99):         *)
(* process_audio_frame, no_voice_activity, save_audio and the finally      *)
(* block contain no await that yields to the event loop.  One action of    *)
(* the model is therefore everything a task does between two suspension    *)
(* points: the handling of one inbound unit (or of one timeout), and, when *)
(* that ends the loop, the except/finally blocks too.                      *)
(***************************************************************************)
EXTENDS Integers, Sequences, FiniteSets, TLC

\* Bound on the number of binary units received over all connections.
MaxChunks == 2

Conns == {1, 2}
ClientIds == {"abc", "xyz"}
\* Payloads of binary units (sequences of byte values).
ChunkData == {<<0, 1>>, <<2, 3>>}
\* Payloads of text units: the close token of line 109 and another text.
TextData == {"close()", "ping"}
NoId == "-"

\* Outcomes of the file system calls made by a finalize.  raw: open() of
\* line 68 raises, or the write of line 69 fails after open() truncated the
\* file, or both succeed.  wav: wave.open of line 42 raises, which line 51
\* catches, or the file is written.
RawOutcomes == {"ok", "open_error", "write_error"}
WavOutcomes == {"ok", "open_error"}
IO == [raw : RawOutcomes, wav : WavOutcomes]

VARIABLES
    clients_audios,     \* VoiceReceiverService().clients_audios: id -> list of chunks
    connected_clients,  \* the module-level registry: id -> connection
    webm_files,         \* "<id>.webm" on disk: id -> bytes
    wav_files,          \* "<id>.wav" on disk: id -> wave header
    pc,                 \* position of each connection's get_audio task
    cid,                \* client_id of each connection
    last,               \* history: the last unit each task handled and what its finalize did
    pending,            \* history: chunks received on a connection since its last finalize
    shared,             \* history: the connection was open together with another one of the same id
    finalized,          \* history: for each chunk, the number of finalize events that saw it
    cleanups,           \* history: number of runs of the finally block per connection
    nextUid,            \* history: identity given to the next received chunk
    looked_up,          \* history: a request to /api/{client_id} has been answered
    main_webm_files,    \* src/main.py run on the same units: "<id>.webm" on its disk
    main_pc             \* src/main.py run on the same units: position of each task

vars == <<clients_audios, connected_clients, webm_files, wav_files, pc, cid,
          last, pending, shared, finalized, cleanups, nextUid,
          looked_up, main_webm_files, main_pc>>

\* The variables of the app.py server and of its history.
app_vars == <<clients_audios, connected_clients, webm_files, wav_files, pc, cid,
              last, pending, shared, finalized, cleanups, nextUid>>

(***************************************************************************)
(* Python dict operations.                                                 *)
(***************************************************************************)
EmptyDict == [k \in {} |-> <<>>]

DictSet(d, k, v) == [x \in DOMAIN d \cup {k} |-> IF x = k THEN v ELSE d[x]]

DictPop(d, k) == [x \in DOMAIN d \ {k} |-> d[x]]

\* d.pop(k, None) / the value dict.get would give, None read as the empty list
DictGet(d, k) == IF k \in DOMAIN d THEN d[k] ELSE <<>>

(***************************************************************************)
(* A chunk is the bytes object of one binary unit.  data is its content;   *)
(* uid and conn stand for the identity of the object (which unit, received *)
(* on which connection) and are never read by the operations below.        *)
(***************************************************************************)
Chunk(data, uid, conn) == [data |-> data, uid |-> uid, conn |-> conn]

\* Faulty variant of Join: the chunks are joined last to first.
RECURSIVE Join_reversed(_)
Join_reversed(chunks) ==
    IF chunks = <<>> THEN <<>>
    ELSE Join_reversed(Tail(chunks)) \o Head(chunks).data

\* b"".join(audio_data)
RECURSIVE Join(_)
Join(chunks) ==
    IF chunks = <<>> THEN <<>> ELSE Head(chunks).data \o Join(Tail(chunks))

(***************************************************************************)
(* VoiceReceiverService (src/app.py:13-83).                                *)
(***************************************************************************)
\* Faulty variant of process_audio_frame: the list is replaced, not extended.
process_audio_frame_overwrite(audios, chunk, client_id) ==
    DictSet(audios, client_id, <<chunk>>)

\* process_audio_frame, lines 17-20: create the list if absent, then append
process_audio_frame(audios, chunk, client_id) ==
    DictSet(audios, client_id, Append(DictGet(audios, client_id), chunk))

\* the guard of no_voice_activity, line 28
HasAudio(audios, client_id) ==
    client_id \in DOMAIN audios /\ audios[client_id] # <<>>

\* np.frombuffer(data[: len(data) // 4 * 4], dtype=np.float32), line 38:
\* the number of complete 4-byte samples of the buffer
NumSamples(data) == Len(data) \div 4

\* save_wav, lines 31-52.  The file is a mono, 4-byte-sample, 16000 Hz wave
\* file with one frame per complete sample; the sample values are not
\* modelled.  An exception of wave.open leaves the file as it was; line 51
\* catches it and save_wav returns normally.
save_wav(wav, data, client_id, outcome) ==
    IF outcome = "ok"
    THEN DictSet(wav, client_id,
                 [nchannels |-> 1, sampwidth |-> 4, framerate |-> 16000,
                  nframes |-> NumSamples(data)])
    ELSE wav

\* Faulty variant of save_audio: line 55 reads the list and leaves it in
\* the dict (get instead of pop).
save_audio_no_pop(audios, webm, wav, client_id, io) ==
    LET audio_data == DictGet(audios, client_id)
        buf == Join(audio_data)
    IN  IF audio_data = <<>>
        THEN [audios |-> audios, webm |-> webm, wav |-> wav,
              outcome |-> "noop", drained |-> <<>>]
        ELSE CASE io.raw = "open_error" ->
                    [audios |-> audios, webm |-> webm, wav |-> wav,
                     outcome |-> "raised", drained |-> audio_data]
               [] io.raw = "write_error" ->
                    [audios |-> audios, webm |-> DictSet(webm, client_id, <<>>),
                     wav |-> wav, outcome |-> "raised", drained |-> audio_data]
               [] OTHER ->
                    [audios |-> audios, webm |-> DictSet(webm, client_id, buf),
                     wav |-> save_wav(wav, buf, client_id, io.wav),
                     outcome |-> "wrote", drained |-> audio_data]

\* Faulty variant of save_audio: line 68 opens the raw file for appending
\* ("ab" for "wb").
save_audio_appends(audios, webm, wav, client_id, io) ==
    LET audio_data == DictGet(audios, client_id)
        popped == DictPop(audios, client_id)
        buf == Join(audio_data)
    IN  IF audio_data = <<>>
        THEN [audios |-> popped, webm |-> webm, wav |-> wav,
              outcome |-> "noop", drained |-> <<>>]
        ELSE CASE io.raw = "open_error" ->
                    [audios |-> popped, webm |-> webm, wav |-> wav,
                     outcome |-> "raised", drained |-> audio_data]
               [] io.raw = "write_error" ->
                    [audios |-> popped,
                     webm |-> DictSet(webm, client_id, DictGet(webm, client_id)),
                     wav |-> wav, outcome |-> "raised", drained |-> audio_data]
               [] OTHER ->
                    [audios |-> popped,
                     webm |-> DictSet(webm, client_id, DictGet(webm, client_id) \o buf),
                     wav |-> save_wav(wav, buf, client_id, io.wav),
                     outcome |-> "wrote", drained |-> audio_data]

\* Faulty variant of save_audio: the exception of the re-encode is not
\* caught in save_wav and leaves save_audio.
save_audio_wav_raises(audios, webm, wav, client_id, io) ==
    LET audio_data == DictGet(audios, client_id)
        popped == DictPop(audios, client_id)
        buf == Join(audio_data)
    IN  IF audio_data = <<>>
        THEN [audios |-> popped, webm |-> webm, wav |-> wav,
              outcome |-> "noop", drained |-> <<>>]
        ELSE CASE io.raw = "open_error" ->
                    [audios |-> popped, webm |-> webm, wav |-> wav,
                     outcome |-> "raised", drained |-> audio_data]
               [] io.raw = "write_error" ->
                    [audios |-> popped, webm |-> DictSet(webm, client_id, <<>>),
                     wav |-> wav, outcome |-> "raised", drained |-> audio_data]
               [] OTHER ->
                    [audios |-> popped, webm |-> DictSet(webm, client_id, buf),
                     wav |-> save_wav(wav, buf, client_id, io.wav),
                     outcome |-> IF io.wav = "ok" THEN "wrote" ELSE "raised",
                     drained |-> audio_data]

\* save_audio, lines 54-72.  The result is the state it leaves behind:
\* outcome is "noop" (the early return of line 57), "wrote" (line 72 was
\* reached) or "raised" (open or write of lines 68-69 raised); drained is
\* the list popped at line 55.
save_audio(audios, webm, wav, client_id, io) ==
    LET audio_data == DictGet(audios, client_id)
        popped == DictPop(audios, client_id)
        buf == Join(audio_data)
    IN  IF audio_data = <<>>
        THEN [audios |-> popped, webm |-> webm, wav |-> wav,
              outcome |-> "noop", drained |-> <<>>]
        ELSE CASE io.raw = "open_error" ->
                    [audios |-> popped, webm |-> webm, wav |-> wav,
                     outcome |-> "raised", drained |-> audio_data]
               [] io.raw = "write_error" ->
                    [audios |-> popped, webm |-> DictSet(webm, client_id, <<>>),
                     wav |-> wav, outcome |-> "raised", drained |-> audio_data]
               [] OTHER ->
                    [audios |-> popped, webm |-> DictSet(webm, client_id, buf),
                     wav |-> save_wav(wav, buf, client_id, io.wav),
                     outcome |-> "wrote", drained |-> audio_data]

\* no_voice_activity, lines 27-29
no_voice_activity(audios, webm, wav, client_id, io) ==
    IF HasAudio(audios, client_id)
    THEN save_audio(audios, webm, wav, client_id, io)
    ELSE [audios |-> audios, webm |-> webm, wav |-> wav,
          outcome |-> "noop", drained |-> <<>>]

\* Faulty variant of pop_clients_audios: the entry is left in the dict.
pop_clients_audios_noop(audios, client_id) == audios

\* Faulty variant of pop_clients_audios: the whole dict is emptied.
pop_clients_audios_clear(audios, client_id) == EmptyDict

\* pop_clients_audios, lines 81-83
pop_clients_audios(audios, client_id) ==
    IF client_id \in DOMAIN audios THEN DictPop(audios, client_id) ELSE audios

\* Faulty variant of unregister: the entry is left in the registry.
unregister_noop(clients, client_id) == clients

\* connected_clients.pop(client_id, None), line 124
unregister(clients, client_id) == DictPop(clients, client_id)

(***************************************************************************)
(* get_audio, the websocket endpoint (src/app.py:90-124).                  *)
(***************************************************************************)
Init ==
    /\ clients_audios = EmptyDict
    /\ connected_clients = EmptyDict
    /\ webm_files = EmptyDict
    /\ wav_files = EmptyDict
    /\ pc = [c \in Conns |-> "connecting"]
    /\ cid = [c \in Conns |-> NoId]
    /\ last = [c \in Conns |-> [unit |-> "none", fin |-> "none"]]
    /\ pending = [c \in Conns |-> <<>>]
    /\ shared = [c \in Conns |-> FALSE]
    /\ finalized = [u \in 1..MaxChunks |-> 0]
    /\ cleanups = [c \in Conns |-> 0]
    /\ nextUid = 1
    /\ looked_up = FALSE
    /\ main_webm_files = EmptyDict
    /\ main_pc = [c \in Conns |-> "connecting"]

\* The other connections that are open with the id `id`.
OpenWith(c, id) == {d \in Conns \ {c} : pc[d] = "open" /\ cid[d] = id}

\* The identities of the chunks of a list.
Uids(chunks) == {chunks[i].uid : i \in 1..Len(chunks)}

\* History of a finalize with result r: a run that got past line 57 is one
\* finalize event, which saw the chunks it drained.
Finalized(r) ==
    [u \in 1..MaxChunks |->
        IF r.outcome # "noop" /\ u \in Uids(r.drained)
        THEN finalized[u] + 1 ELSE finalized[u]]

\* The except and finally blocks, lines 116-124, run on the way out of the
\* loop: the finally block is the cleanup.
Cleanup(c, audios) ==
    /\ clients_audios' = pop_clients_audios(audios, cid[c])
    /\ connected_clients' = unregister(connected_clients, cid[c])
    /\ cleanups' = [cleanups EXCEPT ![c] = @ + 1]
    /\ pc' = [pc EXCEPT ![c] = "closed"]

\* Faulty variant of Accept: the registration of line 94 is missing.
Accept_no_register(c, id) ==
    /\ pc[c] = "connecting"
    /\ pc' = [pc EXCEPT ![c] = "open"]
    /\ cid' = [cid EXCEPT ![c] = id]
    /\ shared' = [d \in Conns |->
                    IF OpenWith(c, id) # {} /\ (d = c \/ d \in OpenWith(c, id))
                    THEN TRUE ELSE shared[d]]
    /\ UNCHANGED <<clients_audios, connected_clients, webm_files, wav_files,
                   last, pending, finalized, cleanups, nextUid>>

\* Lines 92-94: the handshake succeeds and the connection is registered.
Accept(c, id) ==
    /\ pc[c] = "connecting"
    /\ pc' = [pc EXCEPT ![c] = "open"]
    /\ cid' = [cid EXCEPT ![c] = id]
    /\ connected_clients' = DictSet(connected_clients, id, c)
    /\ shared' = [d \in Conns |->
                    IF OpenWith(c, id) # {} /\ (d = c \/ d \in OpenWith(c, id))
                    THEN TRUE ELSE shared[d]]
    /\ UNCHANGED <<clients_audios, webm_files, wav_files, last, pending,
                   finalized, cleanups, nextUid>>

\* Line 93 raises (the peer left during the handshake): it is outside the
\* try block, so nothing was registered and no cleanup runs.
AcceptError(c) ==
    /\ pc[c] = "connecting"
    /\ pc' = [pc EXCEPT ![c] = "aborted"]
    /\ UNCHANGED <<clients_audios, connected_clients, webm_files, wav_files,
                   cid, last, pending, shared, finalized, cleanups, nextUid>>

\* Faulty variant of RecvBytes: the chunks are saved as soon as one arrives.
RecvBytes_saves(c, data) ==
    /\ pc[c] = "open"
    /\ nextUid <= MaxChunks
    /\ LET chunk == Chunk(data, nextUid, c)
           audios == process_audio_frame(clients_audios, chunk, cid[c])
       IN  /\ clients_audios' = audios
           /\ pending' = [pending EXCEPT ![c] = Append(@, chunk)]
           /\ webm_files' = DictSet(webm_files, cid[c], Join(audios[cid[c]]))
    /\ nextUid' = nextUid + 1
    /\ last' = [last EXCEPT ![c] = [unit |-> "bytes", fin |-> "none"]]
    /\ UNCHANGED <<connected_clients, wav_files, pc, cid, shared,
                   finalized, cleanups>>

\* Lines 104-106: a binary unit.
RecvBytes(c, data) ==
    /\ pc[c] = "open"
    /\ nextUid <= MaxChunks
    /\ LET chunk == Chunk(data, nextUid, c)
       IN  /\ clients_audios' = process_audio_frame(clients_audios, chunk, cid[c])
           /\ pending' = [pending EXCEPT ![c] = Append(@, chunk)]
    /\ nextUid' = nextUid + 1
    /\ last' = [last EXCEPT ![c] = [unit |-> "bytes", fin |-> "none"]]
    /\ UNCHANGED <<connected_clients, webm_files, wav_files, pc, cid, shared,
                   finalized, cleanups>>

\* Faulty variant of Timeout: line 102 leaves the loop (break for continue).
Timeout_break(c, io) ==
    /\ pc[c] = "open"
    /\ LET r == no_voice_activity(clients_audios, webm_files, wav_files, cid[c], io)
       IN  /\ webm_files' = r.webm
           /\ wav_files' = r.wav
           /\ last' = [last EXCEPT ![c] = [unit |-> "timeout", fin |-> r.outcome]]
           /\ finalized' = Finalized(r)
           /\ pending' = [pending EXCEPT ![c] = IF r.outcome = "noop" THEN @ ELSE <<>>]
           /\ Cleanup(c, r.audios)
    /\ UNCHANGED <<cid, shared, nextUid>>

\* Lines 100-102: the receive timed out.  An exception of the finalize
\* leaves the handler of line 100 for the except block of line 116.
Timeout(c, io) ==
    /\ pc[c] = "open"
    /\ LET r == no_voice_activity(clients_audios, webm_files, wav_files, cid[c], io)
       IN  /\ webm_files' = r.webm
           /\ wav_files' = r.wav
           /\ last' = [last EXCEPT ![c] = [unit |-> "timeout", fin |-> r.outcome]]
           /\ finalized' = Finalized(r)
           /\ pending' = [pending EXCEPT ![c] = IF r.outcome = "noop" THEN @ ELSE <<>>]
           /\ IF r.outcome = "raised"
              THEN Cleanup(c, r.audios)
              ELSE /\ clients_audios' = r.audios
                   /\ UNCHANGED <<connected_clients, cleanups, pc>>
    /\ UNCHANGED <<cid, shared, nextUid>>

\* Faulty variant of RecvText: the close token breaks without the finalize
\* of line 110.
RecvText_close_skips_finalize(c, text, io) ==
    /\ pc[c] = "open"
    /\ IF text = "close()"
       THEN /\ last' = [last EXCEPT ![c] = [unit |-> "close", fin |-> "noop"]]
            /\ Cleanup(c, clients_audios)
            /\ UNCHANGED <<webm_files, wav_files, pending, finalized>>
       ELSE /\ last' = [last EXCEPT ![c] = [unit |-> "text", fin |-> "none"]]
            /\ UNCHANGED <<clients_audios, connected_clients, webm_files,
                           wav_files, pc, pending, finalized, cleanups>>
    /\ UNCHANGED <<cid, shared, nextUid>>

\* Faulty variant of RecvText: a text other than the close token leaves the
\* loop as the units of line 113 do.
RecvText_text_breaks(c, text, io) ==
    /\ pc[c] = "open"
    /\ IF text = "close()"
       THEN LET r == no_voice_activity(clients_audios, webm_files, wav_files, cid[c], io)
            IN  /\ webm_files' = r.webm
                /\ wav_files' = r.wav
                /\ last' = [last EXCEPT ![c] = [unit |-> "close", fin |-> r.outcome]]
                /\ finalized' = Finalized(r)
                /\ pending' = [pending EXCEPT ![c] = IF r.outcome = "noop" THEN @ ELSE <<>>]
                /\ Cleanup(c, r.audios)
       ELSE /\ last' = [last EXCEPT ![c] = [unit |-> "text", fin |-> "none"]]
            /\ Cleanup(c, clients_audios)
            /\ UNCHANGED <<webm_files, wav_files, pending, finalized>>
    /\ UNCHANGED <<cid, shared, nextUid>>

\* Lines 107-112: a text unit.  The close token finalizes and breaks; any
\* other text falls through to the next iteration.
RecvText(c, text, io) ==
    /\ pc[c] = "open"
    /\ IF text = "close()"
       THEN LET r == no_voice_activity(clients_audios, webm_files, wav_files, cid[c], io)
            IN  /\ webm_files' = r.webm
                /\ wav_files' = r.wav
                /\ last' = [last EXCEPT ![c] = [unit |-> "close", fin |-> r.outcome]]
                /\ finalized' = Finalized(r)
                /\ pending' = [pending EXCEPT ![c] = IF r.outcome = "noop" THEN @ ELSE <<>>]
                /\ Cleanup(c, r.audios)
       ELSE /\ last' = [last EXCEPT ![c] = [unit |-> "text", fin |-> "none"]]
            /\ UNCHANGED <<clients_audios, connected_clients, webm_files,
                           wav_files, pc, pending, finalized, cleanups>>
    /\ UNCHANGED <<cid, shared, nextUid>>

\* Faulty variant of RecvOther: the loop finalizes before it breaks on a
\* unit of another shape.
RecvOther_finalizes(c) ==
    /\ pc[c] = "open"
    /\ LET r == no_voice_activity(clients_audios, webm_files, wav_files, cid[c],
                                  [raw |-> "ok", wav |-> "ok"])
       IN  /\ webm_files' = r.webm
           /\ wav_files' = r.wav
           /\ last' = [last EXCEPT ![c] = [unit |-> "other", fin |-> "none"]]
           /\ finalized' = Finalized(r)
           /\ Cleanup(c, r.audios)
    /\ UNCHANGED <<cid, pending, shared, nextUid>>

\* Lines 113-114: a unit with neither "bytes" nor "text", which is what
\* receive() returns when the peer disconnects ("websocket.disconnect").
RecvOther(c) ==
    /\ pc[c] = "open"
    /\ last' = [last EXCEPT ![c] = [unit |-> "other", fin |-> "none"]]
    /\ Cleanup(c, clients_audios)
    /\ UNCHANGED <<webm_files, wav_files, cid, pending, shared, finalized, nextUid>>

\* Faulty variant of RecvError: the cleanup is skipped on the error path
\* (as if it followed the loop instead of standing in a finally block).
RecvError_no_cleanup(c) ==
    /\ pc[c] = "open"
    /\ last' = [last EXCEPT ![c] = [unit |-> "error", fin |-> "none"]]
    /\ pc' = [pc EXCEPT ![c] = "closed"]
    /\ UNCHANGED <<clients_audios, connected_clients, cleanups, webm_files,
                   wav_files, cid, pending, shared, finalized, nextUid>>

\* Line 99 raises something other than the timeout: lines 116-124.
RecvError(c) ==
    /\ pc[c] = "open"
    /\ last' = [last EXCEPT ![c] = [unit |-> "error", fin |-> "none"]]
    /\ Cleanup(c, clients_audios)
    /\ UNCHANGED <<webm_files, wav_files, cid, pending, shared, finalized, nextUid>>

(***************************************************************************)
(* The lookup endpoint (src/app.py:132-135).                               *)
(***************************************************************************)
\* connected_clients.get(client_id, dict(texts=[], note=None)), line 135;
\* 0 stands for the default record
lookup(clients, client_id) ==
    IF client_id \in DOMAIN clients THEN clients[client_id] ELSE 0

\* The values a request can be answered with: a registered connection or
\* the default record.
LookupResults == Conns \cup {0}

\* Faulty variant of Lookup: line 135 stores the default record it returns
\* (setdefault for get).
Lookup_setdefault(id) ==
    /\ connected_clients' =
          IF id \in DOMAIN connected_clients THEN connected_clients
          ELSE DictSet(connected_clients, id, 0)
    /\ looked_up' = TRUE
    /\ UNCHANGED <<clients_audios, webm_files, wav_files, pc, cid, last,
                   pending, shared, finalized, cleanups, nextUid,
                   main_webm_files, main_pc>>

\* One request to /api/{client_id}: the value of line 135 is computed and
\* returned, and nothing is stored.
Lookup(id) ==
    /\ lookup(connected_clients, id) \in LookupResults
    /\ looked_up' = TRUE
    /\ UNCHANGED <<app_vars, main_webm_files, main_pc>>

(***************************************************************************)
(* The variant of src/main.py, fed the units the app.py server is fed.     *)
(* Its class VoiceReceiverService (main.py:11) is declared without the     *)
(* Singleton metaclass, so each VoiceReceiverService() of lines 54, 59, 63 *)
(* and 76 constructs a new object whose clients_audios is empty (lines     *)
(* 12-13); the object is dropped when the call returns.  The variant is    *)
(* fed for as long as the app.py connection is open.                       *)
(***************************************************************************)
\* VoiceReceiverService(), main.py lines 11-13: clients_audios of the new object
main_VoiceReceiverService == EmptyDict

\* process_audio_frame, main.py lines 15-18
main_process_audio_frame(audios, chunk, client_id) ==
    DictSet(audios, client_id, Append(DictGet(audios, client_id), chunk))

\* save_audio, main.py lines 25-33
main_save_audio(audios, webm, client_id, io) ==
    LET audio_data == DictGet(audios, client_id)
        popped == DictPop(audios, client_id)
    IN  IF audio_data = <<>>
        THEN [audios |-> popped, webm |-> webm, outcome |-> "noop"]
        ELSE CASE io.raw = "open_error" ->
                    [audios |-> popped, webm |-> webm, outcome |-> "raised"]
               [] io.raw = "write_error" ->
                    [audios |-> popped, webm |-> DictSet(webm, client_id, <<>>),
                     outcome |-> "raised"]
               [] OTHER ->
                    [audios |-> popped,
                     webm |-> DictSet(webm, client_id, Join(audio_data)),
                     outcome |-> "wrote"]

\* no_voice_activity, main.py lines 21-23
main_no_voice_activity(audios, webm, client_id, io) ==
    IF HasAudio(audios, client_id)
    THEN main_save_audio(audios, webm, client_id, io)
    ELSE [audios |-> audios, webm |-> webm, outcome |-> "noop"]

\* main.py lines 45-47
MainAccept(c) ==
    /\ main_pc' = [main_pc EXCEPT ![c] = "open"]
    /\ UNCHANGED main_webm_files

\* main.py line 46 raises
MainAcceptError(c) ==
    /\ main_pc' = [main_pc EXCEPT ![c] = "aborted"]
    /\ UNCHANGED main_webm_files

\* main.py lines 57-59: the chunk is appended to the list of a new object
MainRecvBytes(c, data) ==
    /\ main_process_audio_frame(main_VoiceReceiverService, Chunk(data, nextUid, c), cid[c])
           \in [{cid[c]} -> Seq([data : ChunkData, uid : Nat, conn : Conns])]
    /\ UNCHANGED <<main_webm_files, main_pc>>

\* main.py lines 53-55 and 69-77
MainTimeout(c, io) ==
    IF main_pc[c] = "open"
    THEN LET r == main_no_voice_activity(main_VoiceReceiverService,
                                         main_webm_files, cid[c], io)
         IN  /\ main_webm_files' = r.webm
             /\ main_pc' = IF r.outcome = "raised"
                           THEN [main_pc EXCEPT ![c] = "closed"] ELSE main_pc
    ELSE UNCHANGED <<main_webm_files, main_pc>>

\* main.py lines 60-65 and 75-77
MainRecvText(c, text, io) ==
    IF main_pc[c] = "open" /\ text = "close()"
    THEN LET r == main_no_voice_activity(main_VoiceReceiverService,
                                         main_webm_files, cid[c], io)
         IN  /\ main_webm_files' = r.webm
             /\ main_pc' = [main_pc EXCEPT ![c] = "closed"]
    ELSE UNCHANGED <<main_webm_files, main_pc>>

\* main.py lines 66-67 and 69-77: a unit of another shape, or receive raises
MainRecvOther(c) ==
    /\ main_pc' = [main_pc EXCEPT ![c] = IF @ = "open" THEN "closed" ELSE @]
    /\ UNCHANGED main_webm_files

\* The outcomes of the file system calls that a step of connection c can
\* meet: a step that finds nothing to finalize makes no such call.
IOAt(c) ==
    IF HasAudio(clients_audios, cid[c]) THEN IO
    ELSE {[raw |-> "ok", wav |-> "ok"]}

Next ==
    \/ \E c \in Conns :
        \/ \E id \in ClientIds :
              Accept(c, id) /\ MainAccept(c) /\ UNCHANGED looked_up
        \/ AcceptError(c) /\ MainAcceptError(c) /\ UNCHANGED looked_up
        \/ \E data \in ChunkData :
              RecvBytes(c, data) /\ MainRecvBytes(c, data) /\ UNCHANGED looked_up
        \/ \E io \in IOAt(c) :
              Timeout(c, io) /\ MainTimeout(c, io) /\ UNCHANGED looked_up
        \/ \E text \in TextData, io \in IOAt(c) :
              RecvText(c, text, io) /\ MainRecvText(c, text, io) /\ UNCHANGED looked_up
        \/ RecvOther(c) /\ MainRecvOther(c) /\ UNCHANGED looked_up
        \/ RecvError(c) /\ MainRecvOther(c) /\ UNCHANGED looked_up
    \/ \E id \in ClientIds : Lookup(id)

Spec == Init /\ [][Next]_vars

(***************************************************************************)
(* Steps of one connection, for the properties below.                      *)
(***************************************************************************)
\* What a step of the task of connection c that changes the state of the
\* server changes: its position, the unit it handled last, the chunks it
\* has pending, or the chunks that were finalized.
Moved(c) ==
    \/ pc'[c] # pc[c]
    \/ last'[c] # last[c]
    \/ pending'[c] # pending[c]
    \/ finalized' # finalized

TimeoutStep(c) == \E io \in IO : Timeout(c, io)

CloseStep(c) == \E io \in IO : RecvText(c, "close()", io)

\* A timeout or close step of c whose raw write succeeds.
TimeoutStepOk(c) == \E io \in IO : io.raw = "ok" /\ Timeout(c, io)

CloseStepOk(c) == \E io \in IO : io.raw = "ok" /\ RecvText(c, "close()", io)

(***************************************************************************)
(* Properties.                                                             *)
(***************************************************************************)
\* The bytes of the first n chunks of a list, in the order of the list.
RECURSIVE BytesOfFirst(_, _)
BytesOfFirst(chunks, n) ==
    IF n = 0 THEN <<>> ELSE BytesOfFirst(chunks, n - 1) \o chunks[n].data

\* c1 ++ ... ++ cn for the list <<c1, ..., cn>>.
InOrder(chunks) == BytesOfFirst(chunks, Len(chunks))

\* C1: when a connection that does not share its id has received the
\* chunks c1..cn (n > 0) since its last finalize and its receive then times
\* out, the accumulator has no chunks for the id after the step, and the raw
\* file, when its write succeeds, holds c1 ++ ... ++ cn in arrival order.
C1_TimeoutWritesArrivalOrder ==
    [][\A c \in Conns :
        (pending[c] # <<>> /\ ~shared[c]) =>
            /\ TimeoutStep(c) => ~HasAudio(clients_audios', cid[c])
            /\ TimeoutStepOk(c) =>
                   /\ cid[c] \in DOMAIN webm_files'
                   /\ webm_files'[cid[c]] = InOrder(pending[c])]_vars

\* Two chunks, then a timeout: the file holds both, in order, the
\* accumulator is empty and the connection is still open.
C1_Witness ==
    \E c \in Conns :
        /\ pc[c] = "open" /\ ~shared[c]
        /\ last[c] = [unit |-> "timeout", fin |-> "wrote"]
        /\ cid[c] \in DOMAIN webm_files
        /\ webm_files[cid[c]] = <<0, 1, 2, 3>>
        /\ cid[c] \notin DOMAIN clients_audios

\* C2: a drain (save_audio) of the chunks appended for an id returns them in
\* arrival order, and a second drain with no append in between returns the
\* empty list, reports the early return and leaves both files as they were.
C2_DrainInOrderThenEmpty ==
    \A c \in Conns, io \in IO, io2 \in IO :
        (pc[c] = "open" /\ ~shared[c]) =>
            LET r1 == save_audio(clients_audios, webm_files, wav_files, cid[c], io)
                r2 == save_audio(r1.audios, r1.webm, r1.wav, cid[c], io2)
            IN  /\ r1.drained = pending[c]
                /\ r2.drained = <<>>
                /\ r2.outcome = "noop"
                /\ r2.webm = r1.webm
                /\ r2.wav = r1.wav
                /\ r2.audios = r1.audios

\* Two chunks were appended, a finalize drained both into the file, and the
\* next finalize, with no append in between, found nothing and left the
\* file as it was.
C2_Witness ==
    \E c \in Conns :
        /\ pc[c] = "open" /\ ~shared[c]
        /\ last[c] = [unit |-> "timeout", fin |-> "noop"]
        /\ finalized[1] = 1 /\ finalized[2] = 1
        /\ cid[c] \in DOMAIN webm_files
        /\ Len(webm_files[cid[c]]) = 4
        /\ pending[c] = <<>>

\* C3: no chunk is seen by more than one finalize event.
C3_FinalizedAtMostOnce ==
    \A u \in 1..MaxChunks : finalized[u] <= 1

\* Two finalize events on one connection: the first chunk was finalized on
\* a timeout, the second one on the close token, which wrote a file that
\* holds the second chunk alone.
C3_Witness ==
    \E c \in Conns :
        /\ last[c] = [unit |-> "close", fin |-> "wrote"]
        /\ ~shared[c]
        /\ finalized[1] = 1 /\ finalized[2] = 1
        /\ Len(webm_files[cid[c]]) = 2

\* C4: the step in which a connection's handler finishes, whatever ended
\* the loop, leaves its id absent from connected_clients.
C4_UnregisteredWhenClosed ==
    [][\A c \in Conns :
        (pc[c] = "open" /\ pc'[c] = "closed") =>
            cid[c] \notin DOMAIN connected_clients']_vars

\* A handler that finished because its finalize raised, with its id absent.
C4_Witness ==
    \E c \in Conns :
        /\ pc[c] = "closed"
        /\ last[c].fin = "raised"
        /\ cid[c] \notin DOMAIN connected_clients

\* C5: the step that handles the close token closes the connection at
\* once, and finalizes as the timeout does: the accumulator has no chunks
\* for the id afterwards, and when the connection does not share its id and
\* has chunks pending, the raw file, when its write succeeds, holds them in
\* arrival order.
C5_CloseFinalizesAndCloses ==
    [][\A c \in Conns :
        (pc[c] = "open" /\ last'[c].unit = "close") =>
            /\ pc'[c] = "closed"
            /\ ~HasAudio(clients_audios', cid[c])
            /\ (pending[c] # <<>> /\ ~shared[c]) =>
                   /\ last'[c].fin # "noop"
                   /\ last'[c].fin = "wrote" =>
                          /\ cid[c] \in DOMAIN webm_files'
                          /\ webm_files'[cid[c]] = InOrder(pending[c])]_vars

\* Two chunks, then the close token: closed, with the file holding both.
C5_Witness ==
    \E c \in Conns :
        /\ pc[c] = "closed" /\ ~shared[c]
        /\ last[c] = [unit |-> "close", fin |-> "wrote"]
        /\ webm_files[cid[c]] = <<0, 1, 2, 3>>
        /\ cid[c] \notin DOMAIN clients_audios

\* C6 as stated: a unit that is neither binary nor the close token, a text
\* other than the close token included, closes the connection.
C6_AsStated ==
    \A c \in Conns : last[c].unit \in {"text", "other"} => pc[c] = "closed"

\* C6: a unit that is neither binary nor text closes the connection in the
\* step that handles it, and a text other than the close token leaves the
\* connection open, the accumulator and the registry as they were; neither
\* runs a finalize: no file changes and no chunk is finalized.
C6_OtherClosesTextIgnored ==
    [][\A c \in Conns :
        /\ (pc[c] = "open" /\ last'[c].unit = "other") =>
               /\ pc'[c] = "closed"
               /\ last'[c].fin = "none"
               /\ UNCHANGED <<webm_files, wav_files, finalized>>
        /\ (pc[c] = "open" /\ last'[c].unit = "text" /\ last'[c] # last[c]) =>
               /\ pc'[c] = "open"
               /\ last'[c].fin = "none"
               /\ UNCHANGED <<webm_files, wav_files, finalized,
                              clients_audios, connected_clients>>]_vars

\* A text other than the close token was handled with chunks accumulated:
\* the connection is open and the chunks are still there, in no file.
C6_Witness ==
    \E c \in Conns :
        /\ last[c].unit = "text"
        /\ pc[c] = "open"
        /\ HasAudio(clients_audios, cid[c])
        /\ cid[c] \notin DOMAIN webm_files

\* C7 as stated: after a timeout-triggered finalize, whether it wrote, was a
\* no-op or failed, the connection is open and, unless it shares its id,
\* still registered.
C7_TimeoutKeepsOpen ==
    \A c \in Conns :
        last[c].unit = "timeout" =>
            /\ pc[c] = "open"
            /\ ~shared[c] => cid[c] \in DOMAIN connected_clients

\* C8: a timeout that fires while the accumulator has no chunks for the id
\* changes no file, no accumulator entry, no registry entry and no
\* connection state.
C8_EmptyTimeoutChangesNothing ==
    [][\A c \in Conns :
        (~HasAudio(clients_audios, cid[c]) /\ Moved(c) /\ TimeoutStep(c)) =>
            /\ last'[c].fin = "noop"
            /\ UNCHANGED <<webm_files, wav_files, clients_audios,
                           connected_clients, pc, finalized>>]_vars

\* A timeout found nothing to finalize on a connection that never wrote.
C8_Witness ==
    \E c \in Conns :
        /\ last[c] = [unit |-> "timeout", fin |-> "noop"]
        /\ pc[c] = "open"
        /\ cid[c] \notin DOMAIN webm_files
        /\ cid[c] \in DOMAIN connected_clients

\* C9: a finalize of non-empty data whose re-encode fails has written the
\* raw file with the joined chunks, and leaves the accumulator, the raw
\* file and the outcome seen by the loop as the finalize whose re-encode
\* succeeds does; on a timeout the connection stays open.
C9_WavFailureKeepsRawAndConnection ==
    [][\A c \in Conns :
        LET bad == [raw |-> "ok", wav |-> "open_error"]
            good == [raw |-> "ok", wav |-> "ok"]
            r == no_voice_activity(clients_audios, webm_files, wav_files, cid[c], good)
        IN  /\ (Timeout(c, bad) /\ HasAudio(clients_audios, cid[c])) =>
                   /\ webm_files'[cid[c]] = InOrder(clients_audios[cid[c]])
                   /\ webm_files' = r.webm
                   /\ clients_audios' = r.audios
                   /\ last'[c].fin = r.outcome
                   /\ wav_files' = wav_files
                   /\ pc'[c] = "open"
                   /\ UNCHANGED <<connected_clients, cleanups>>
            /\ (RecvText(c, "close()", bad) /\ HasAudio(clients_audios, cid[c])) =>
                   /\ webm_files'[cid[c]] = InOrder(clients_audios[cid[c]])
                   /\ webm_files' = r.webm
                   /\ last'[c].fin = r.outcome
                   /\ wav_files' = wav_files]_vars

\* A timeout wrote the raw file of an id that has no waveform file: the
\* re-encode failed, and the connection is open and registered.
C9_Witness ==
    \E c \in Conns :
        /\ last[c] = [unit |-> "timeout", fin |-> "wrote"]
        /\ cid[c] \in DOMAIN webm_files
        /\ cid[c] \notin DOMAIN wav_files
        /\ pc[c] = "open"
        /\ cid[c] \in DOMAIN connected_clients

\* C10: the cleanup has run exactly once for a connection whose handler
\* finished, whatever ended the loop, and not at all for any other; after
\* it the accumulator has no entry for the id.
C10_CleanupExactlyOnce ==
    /\ \A c \in Conns : cleanups[c] = IF pc[c] = "closed" THEN 1 ELSE 0
    /\ \A c \in Conns :
          (pc[c] = "closed" /\ OpenWith(c, cid[c]) = {}) =>
              cid[c] \notin DOMAIN clients_audios

\* Handlers ended by a failed finalize on a timeout and by a receive error,
\* each cleaned up once.
C10_Witness ==
    \E c, d \in Conns :
        /\ pc[c] = "closed" /\ last[c] = [unit |-> "timeout", fin |-> "raised"]
        /\ pc[d] = "closed" /\ last[d].unit = "error"
        /\ cleanups[c] = 1 /\ cleanups[d] = 1

\* C11: a disconnect (the unit without "bytes" and "text", or an exception
\* of receive) writes no file and finalizes nothing, and leaves the id out
\* of the registry and of the accumulator; a timeout before it finalizes
\* every chunk the connection has pending; and the chunks a connection had
\* pending when it disconnected are never finalized.  The last two are
\* stated for a connection that does not share its id.
C11_DisconnectDropsPending ==
    /\ [](\A c \in Conns :
            (pc[c] = "closed" /\ last[c].unit \in {"other", "error"} /\ ~shared[c]) =>
                \A i \in 1..Len(pending[c]) : finalized[pending[c][i].uid] = 0)
    /\ [][\A c \in Conns :
            /\ (pc[c] = "open" /\ last'[c].unit \in {"other", "error"}) =>
                   /\ UNCHANGED <<webm_files, wav_files, finalized>>
                   /\ cid[c] \notin DOMAIN connected_clients'
                   /\ cid[c] \notin DOMAIN clients_audios'
            /\ (~shared[c] /\ Moved(c) /\ TimeoutStep(c)) =>
                   \A i \in 1..Len(pending[c]) : finalized'[pending[c][i].uid] = 1]_vars

\* Both orderings: one connection disconnected with its chunk pending and
\* has no file; the other one timed out first and has its chunk in the file.
C11_Witness ==
    \E c, d \in Conns :
        /\ c # d /\ cid[c] # cid[d]
        /\ pc[c] = "closed" /\ last[c].unit = "other"
        /\ Len(pending[c]) = 1 /\ finalized[pending[c][1].uid] = 0
        /\ cid[c] \notin DOMAIN webm_files
        /\ pc[d] = "closed" /\ last[d].unit = "other"
        /\ pending[d] = <<>>
        /\ cid[d] \in DOMAIN webm_files /\ Len(webm_files[cid[d]]) = 2
        /\ cid[c] \notin DOMAIN connected_clients
        /\ cid[d] \notin DOMAIN connected_clients

\* C12 as stated: fed the same units, main.py has written the raw files that
\* app.py has written, with the same content, after every step (in runs in
\* which no raw write raised); in particular chunks c1..cn followed by a
\* timeout leave c1 ++ ... ++ cn in its file.
C12_MainWritesAsApp ==
    (\A c \in Conns : last[c].fin # "raised") => main_webm_files = webm_files

\* C13: a step that answers a lookup leaves the registry, every accumulator
\* entry, every connection state and every file as they were, in whatever
\* state of the connections it is taken.
C13_LookupReadOnly ==
    [][(~looked_up /\ looked_up') =>
          UNCHANGED <<connected_clients, clients_audios, pc, cid,
                      webm_files, wav_files>>]_vars

\* A lookup was answered and a registered connection is open in the middle
\* of its loop, with chunks accumulated, and is what a lookup returns.
C13_Witness ==
    /\ looked_up
    /\ \E c \in Conns :
          /\ pc[c] = "open"
          /\ HasAudio(clients_audios, cid[c])
          /\ lookup(connected_clients, cid[c]) = c
    /\ \E id \in ClientIds : lookup(connected_clients, id) = 0

\* The connections that are open with the id `id`.
OpenConns(id) == {c \in Conns : pc[c] = "open" /\ cid[c] = id}

\* No two connections have been open with the id `id` at the same time.
Unshared(id) == \A c \in Conns : cid[c] = id => ~shared[c]

\* C14 as stated: whatever ids the connections use, an id is in the
\* registry exactly when some connection for it is open.
C14_AsStated ==
    \A id \in ClientIds : id \in DOMAIN connected_clients <=> OpenConns(id) # {}

\* C14: an id that no two connections have used at the same time is in the
\* registry exactly when a connection for it is open, and is then
\* registered to that connection.
C14_RegisteredIffOpen ==
    \A id \in ClientIds :
        Unshared(id) =>
            /\ id \in DOMAIN connected_clients <=> OpenConns(id) # {}
            /\ id \in DOMAIN connected_clients => connected_clients[id] \in OpenConns(id)

\* An id is used by a second connection after its first one closed, and is
\* registered to the second; the other id was used and is registered no more.
C14_Witness ==
    \E c, d \in Conns :
        /\ c # d /\ cid[c] = cid[d]
        /\ ~shared[c] /\ ~shared[d]
        /\ pc[c] = "closed" /\ pc[d] = "open"
        /\ connected_clients[cid[d]] = d

\* A step taken by the task of connection c.
StepOf(c) ==
    \/ \E id \in ClientIds : Accept(c, id)
    \/ AcceptError(c)
    \/ \E data \in ChunkData : RecvBytes(c, data)
    \/ \E io \in IO : Timeout(c, io)
    \/ \E text \in TextData, io \in IO : RecvText(c, text, io)
    \/ RecvOther(c)
    \/ RecvError(c)

\* The accumulated chunks that were received on connections other than c.
ChunksOfOthers(audios, c) ==
    UNION {{audios[id][i] : i \in {j \in 1..Len(audios[id]) : audios[id][j].conn # c}}
              : id \in DOMAIN audios}

\* C15 as stated: whatever ids the connections use, a step of a connection
\* neither removes nor adds accumulated chunks received on another one.
C15_AsStated ==
    [][\A c \in Conns :
        StepOf(c) => ChunksOfOthers(clients_audios', c) = ChunksOfOthers(clients_audios, c)]_vars

\* C15: a step of a connection leaves the accumulator entry of every id
\* other than its own as it was (a step that changes the entry of another
\* id is not a step of that connection), and the entry of the id of an open
\* connection that does not share its id holds only chunks received on that
\* connection.
C15_OnlyOwnIdEntryWritten ==
    /\ [](\A c \in Conns :
            (pc[c] = "open" /\ ~shared[c]) =>
                \A i \in 1..Len(DictGet(clients_audios, cid[c])) :
                    clients_audios[cid[c]][i].conn = c)
    /\ [][\A c \in Conns :
            (\E id \in ClientIds \ {cid'[c]} :
                \/ ~(id \in DOMAIN clients_audios' <=> id \in DOMAIN clients_audios)
                \/ DictGet(clients_audios', id) # DictGet(clients_audios, id))
            => ~StepOf(c)]_vars

\* One connection finalized and closed while another one, with another id,
\* is open and still has the chunk it received.
C15_Witness ==
    \E c, d \in Conns :
        /\ cid[c] # cid[d]
        /\ pc[c] = "closed" /\ last[c] = [unit |-> "close", fin |-> "wrote"]
        /\ pc[d] = "open"
        /\ HasAudio(clients_audios, cid[d])
        /\ clients_audios[cid[d]][1].conn = d
        /\ clients_audios[cid[d]][1].uid = 1

\* C16: the accumulator has an entry only for ids with an open connection,
\* so a connection opened with an id after the earlier connections of that
\* id closed starts without chunks; and the entry of a connection that does
\* not share its id is made of the chunks received on that connection since
\* its last finalize, which is what its next finalize drains.
C16_FreshAfterClose ==
    /\ \A id \in ClientIds : OpenConns(id) = {} => id \notin DOMAIN clients_audios
    /\ \A c \in Conns :
          (pc[c] = "open" /\ ~shared[c]) =>
              /\ DictGet(clients_audios, cid[c]) = pending[c]
              /\ \A i \in 1..Len(pending[c]) : pending[c][i].conn = c

\* A connection closed with its chunk pending; a later connection with the
\* same id received a chunk, and its first finalize wrote that chunk alone.
C16_Witness ==
    \E c, d \in Conns :
        /\ c # d /\ cid[c] = cid[d] /\ ~shared[d]
        /\ pc[c] = "closed" /\ Len(pending[c]) = 1 /\ pending[c][1].uid = 1
        /\ pending[c][1].data = <<0, 1>>
        /\ finalized[1] = 0 /\ finalized[2] = 1
        /\ last[d].fin = "wrote"
        /\ webm_files[cid[d]] = <<2, 3>>

\* C17: a finalize that writes leaves in the raw file of its id exactly the
\* chunks it drained, joined in order, whatever the file held before, and
\* leaves the raw files of the other ids as they were.
C17_FileReplaced ==
    [][\A c \in Conns :
        (last'[c].fin = "wrote" /\ Moved(c) /\ (TimeoutStep(c) \/ CloseStep(c))) =>
            /\ cid[c] \in DOMAIN webm_files'
            /\ webm_files'[cid[c]] = InOrder(clients_audios[cid[c]])
            /\ \A id \in ClientIds \ {cid[c]} :
                  /\ id \in DOMAIN webm_files' <=> id \in DOMAIN webm_files
                  /\ DictGet(webm_files', id) = DictGet(webm_files, id)]_vars

\* Chunk, timeout, chunk, timeout on one connection: the file holds the
\* second chunk and nothing of the first.
C17_Witness ==
    \E c \in Conns :
        /\ \A d \in Conns \ {c} : pc[d] = "connecting"
        /\ pc[c] = "open"
        /\ last[c] = [unit |-> "timeout", fin |-> "wrote"]
        /\ finalized[1] = 1 /\ finalized[2] = 1
        /\ webm_files[cid[c]] = <<2, 3>>

\* C18: a step that changes a file handles a timeout or the close token on
\* a connection whose id has chunks accumulated; a step that receives a
\* binary unit changes no file and lengthens the sequence of its id by one.
C18_WritesOnlyOnTimeoutOrClose ==
    [][/\ (webm_files' # webm_files \/ wav_files' # wav_files) =>
              \E c \in Conns :
                  /\ TimeoutStep(c) \/ CloseStep(c)
                  /\ HasAudio(clients_audios, cid[c])
       /\ \A c \in Conns :
              (\E data \in ChunkData : RecvBytes(c, data)) =>
                  /\ UNCHANGED <<webm_files, wav_files, finalized>>
                  /\ Len(clients_audios'[cid[c]]) =
                         Len(DictGet(clients_audios, cid[c])) + 1]_vars

\* A client sent two chunks and nothing else: both are accumulated, and no
\* file exists.
C18_Witness ==
    \E c \in Conns :
        /\ pc[c] = "open"
        /\ last[c].unit = "bytes"
        /\ Len(DictGet(clients_audios, cid[c])) = 2
        /\ webm_files = EmptyDict /\ wav_files = EmptyDict
        /\ \A u \in 1..MaxChunks : finalized[u] = 0

====
